---------------------------- MODULE Spec2Model ----------------------------
(***************************************************************************)
(* Sliding-block puzzle (Bogay/AI-hw2): the bounded grid (Matrix2D), the   *)
(* Board with its memoized goal and legal-move cache, and the two          *)
(* iterative-deepening searches, IDDFS and IDA-star.                       *)
(***************************************************************************)
EXTENDS Integers, Sequences, FiniteSets, TLC

VARIABLES
    board,      \* the Board being mutated (grid, state, final_state, _possible_moves)
    orig,       \* the Board handed to the search engines (the `board` argument)
    holes0,     \* number of holes of the Board when it was constructed
    prev,       \* the Board before the last direct move_block call
    last,       \* the last direct move_block call: [id, dir, res]
    algo,       \* the running search: "none", "iddfs", "iddfs2", "idastar"
    pc,         \* "idle", "round", "call", "loop", "ret", "done", "panic"
    stack,      \* the recursion stack of dfs / _idastar frames, innermost last
    visited,    \* the BTreeSet<BoardState> of the current round
    ret,        \* what the call that just returned returned
    limit,      \* iddfs: `limit` of the outer loop; idastar: its `f_limit`
    result,     \* what the running search returned
    outcome,    \* per search engine, the outcome of its run on orig
    input,      \* the Matrix2D<i8> handed to Board::try_from (construction specification)
    built,      \* what Board::try_from returned: "none" before the call, "Ok" or its error
    fseen,      \* the f_value's _idastar has computed in the current round
    mat,        \* the Matrix2D the grid operations act on (matrix specification)
    mat0,       \* mat before the last grid operation
    mcall,      \* the last grid operation: [op, pos, size, value, res]
    text        \* the text Display wrote or a board file holds: lines of tokens

vars == <<board, orig, holes0, prev, last, algo, pc, stack, visited, ret, limit, result, outcome,
          input, built, fseen, mat, mat0, mcall, text>>

-----------------------------------------------------------------------------
(* Bounds and input sets *)

\* Largest block id an input grid may hold (ids are drawn from 0..MaxBlocks).
MaxBlocks == 3

\* Grid sizes <<width, height>> of the input grids of the Board specification.
BoardSizes == {<<3, 2>>, <<2, 2>>}

-----------------------------------------------------------------------------
(* vec2.rs *)

Vec2(x, y) == <<x, y>>

VAdd(a, b) == <<a[1] + b[1], a[2] + b[2]>>

Abs(n) == IF n < 0 THEN -n ELSE n

-----------------------------------------------------------------------------
(* board.rs: Dir *)

Dirs == {"Up", "Down", "Left", "Right"}

to_vec2MutLeap(d) ==
    CASE d = "Up" -> Vec2(0, -1)
      [] d = "Down" -> Vec2(0, 1)
      [] d = "Left" -> Vec2(-1, 0)
      [] d = "Right" -> Vec2(2, 0)

to_vec2(d) ==
    CASE d = "Up" -> Vec2(0, -1)
      [] d = "Down" -> Vec2(0, 1)
      [] d = "Left" -> Vec2(-1, 0)
      [] d = "Right" -> Vec2(1, 0)

inverseMutUp(d) ==
    CASE d = "Up" -> "Up"
      [] d = "Down" -> "Up"
      [] d = "Left" -> "Right"
      [] d = "Right" -> "Left"

inverse(d) ==
    CASE d = "Up" -> "Down"
      [] d = "Down" -> "Up"
      [] d = "Left" -> "Right"
      [] d = "Right" -> "Left"

-----------------------------------------------------------------------------
(* matrix.rs: Matrix2D<i8> as [size |-> <<w, h>>, store |-> row-major Seq] *)

NoneOpt == [some |-> FALSE, v |-> 0]

SomeOpt(x) == [some |-> TRUE, v |-> x]

Matrix2D_fill(size, value) ==
    [size |-> size, store |-> [i \in 1..(size[1] * size[2]) |-> value]]

is_inside(m, pos) ==
    pos[1] >= 0 /\ pos[1] < m.size[1] /\ pos[2] >= 0 /\ pos[2] < m.size[2]

StoreIndexMutColMajor(m, pos) == pos[1] * m.size[2] + pos[2] + 1

\* 1-based position in the store of the cell at pos: y * width + x
StoreIndex(m, pos) == pos[2] * m.size[1] + pos[1] + 1

get(m, pos) ==
    IF ~is_inside(m, pos) THEN NoneOpt ELSE SomeOpt(m.store[StoreIndex(m, pos)])

get_mut(m, pos) ==
    IF ~is_inside(m, pos) THEN NoneOpt ELSE SomeOpt(m.store[StoreIndex(m, pos)])

\* the cells of the size-rectangle anchored at anchor
Rect(anchor, size) ==
    {VAdd(anchor, Vec2(dx, dy)) : dx \in 0..(size[1] - 1), dy \in 0..(size[2] - 1)}

try_fillMutPartial(m, anchor, size, value) ==
    LET idx == {StoreIndex(m, p) : p \in {q \in Rect(anchor, size) : get(m, q).some}}
        filled == [m EXCEPT !.store =
                      [i \in DOMAIN m.store |-> IF i \in idx THEN value ELSE m.store[i]]]
    IN [ok |-> \A p \in Rect(anchor, size) : get(m, p).some, m |-> filled]

try_fill(m, anchor, size, value) ==
    IF \E p \in Rect(anchor, size) : ~get(m, p).some
    THEN [ok |-> FALSE, m |-> m]
    ELSE LET idx == {StoreIndex(m, p) : p \in Rect(anchor, size)}
         IN [ok |-> TRUE,
             m |-> [m EXCEPT !.store =
                       [i \in DOMAIN m.store |-> IF i \in idx THEN value ELSE m.store[i]]]]

try_fill_without_coverMutCover(m, anchor, size, value) ==
    IF \E p \in Rect(anchor, size) : ~get(m, p).some
    THEN [ok |-> FALSE, m |-> m]
    ELSE LET idx == {StoreIndex(m, p) : p \in Rect(anchor, size)}
         IN [ok |-> TRUE,
             m |-> [m EXCEPT !.store =
                       [i \in DOMAIN m.store |-> IF i \in idx THEN value ELSE m.store[i]]]]

\* T::default() of the cell type i8 is 0
try_fill_without_cover(m, anchor, size, value) ==
    IF \E p \in Rect(anchor, size) : ~get(m, p).some \/ get(m, p).v # 0
    THEN [ok |-> FALSE, m |-> m]
    ELSE LET idx == {StoreIndex(m, p) : p \in Rect(anchor, size)}
         IN [ok |-> TRUE,
             m |-> [m EXCEPT !.store =
                       [i \in DOMAIN m.store |-> IF i \in idx THEN value ELSE m.store[i]]]]

\* the cells of a grid in row-major order (the order of the nested row/column loops)
RowMajor(size) ==
    [i \in 1..(size[1] * size[2]) |-> Vec2((i - 1) % size[1], (i - 1) \div size[1])]

-----------------------------------------------------------------------------
(* board.rs: Block, BoardState, Board *)

Block(id, pos, size) == [id |-> id, pos |-> pos, size |-> size]

BoardState_new(holes, blocks) == [holes |-> holes, blocks |-> blocks]

Err(e) == [ok |-> FALSE, err |-> e]

\* positions are in row-major order
from_positions(id, positions) ==
    CASE Len(positions) = 1 ->
            [ok |-> TRUE, block |-> Block(id, positions[1], Vec2(1, 1))]
      [] Len(positions) = 2 ->
            LET pos == positions[1] IN
            IF positions[2] = VAdd(pos, Vec2(1, 0))
            THEN [ok |-> TRUE, block |-> Block(id, pos, Vec2(2, 1))]
            ELSE IF positions[2] = VAdd(pos, Vec2(0, 1))
            THEN [ok |-> TRUE, block |-> Block(id, pos, Vec2(1, 2))]
            ELSE Err("MalformedBlock")
      [] Len(positions) = 4 ->
            LET pos == positions[1]
                deltas == <<Vec2(1, 0), Vec2(0, 1), Vec2(1, 1)>>
            IN IF \E i \in 1..3 : positions[i + 1] # VAdd(pos, deltas[i])
               THEN Err("MalformedBlock")
               ELSE [ok |-> TRUE, block |-> Block(id, pos, Vec2(2, 2))]
      [] OTHER -> Err("MalformedBlock")

\* the HashMap<i8, Vec<Vec2>> built by try_from: the cells of id, row-major
PositionsOf(grid, id) ==
    SelectSeq(RowMajor(grid.size), LAMBDA p : get(grid, p).v = id)

GridIds(grid) == {grid.store[i] : i \in DOMAIN grid.store} \ {0}

RECURSIVE parse_blocks_from(_, _, _, _)
parse_blocks_from(grid, id, block_cnt, results) ==
    IF id > block_cnt THEN [ok |-> TRUE, blocks |-> results]
    ELSE IF id \notin GridIds(grid) THEN Err("MissingBlock")
    ELSE LET b == from_positions(id, PositionsOf(grid, id))
         IN IF ~b.ok THEN b
            ELSE parse_blocks_from(grid, id + 1, block_cnt, Append(results, b.block))

\* `n as i8`: the cast keeps the low eight bits
as_i8(n) == ((n + 128) % 256) - 128

\* block_cnt = blocks.len() as i8
parse_blocks(grid) ==
    parse_blocks_from(grid, 1, as_i8(Cardinality(GridIds(grid))), <<>>)

\* acc = [grid, next_block_id, result_blocks, holes]
FinalStepMutNoHole(acc, pos, blocks) ==
    IF get(acc.grid, pos).v # 0 THEN acc
    ELSE IF acc.next_block_id + 1 <= Len(blocks)
    THEN LET block == blocks[acc.next_block_id + 1]
             f == try_fill(acc.grid, pos, block.size, block.id)
         IN IF f.ok
            THEN [grid |-> f.m,
                  next_block_id |-> acc.next_block_id + 1,
                  result_blocks |-> Append(acc.result_blocks, Block(block.id, pos, block.size)),
                  holes |-> acc.holes]
            ELSE acc
    ELSE acc

FinalStepMutUsePos(acc, pos, blocks) ==
    IF get(acc.grid, pos).v # 0 THEN acc
    ELSE IF acc.next_block_id + 1 <= Len(blocks)
    THEN LET block == blocks[acc.next_block_id + 1]
             f == try_fill(acc.grid, pos, block.size, block.id)
         IN IF f.ok
            THEN [grid |-> f.m,
                  next_block_id |-> acc.next_block_id + 1,
                  result_blocks |-> Append(acc.result_blocks, Block(block.id, block.pos, block.size)),
                  holes |-> acc.holes]
            ELSE [acc EXCEPT !.holes = acc.holes \cup {pos}]
    ELSE [acc EXCEPT !.holes = acc.holes \cup {pos}]

\* One iteration of the row-major scan of generate_final_state at cell i.
\* acc = [grid, next_block_id, result_blocks, holes]
FinalStep(acc, pos, blocks) ==
    IF get(acc.grid, pos).v # 0 THEN acc
    ELSE IF acc.next_block_id + 1 <= Len(blocks)
    THEN LET block == blocks[acc.next_block_id + 1]
             f == try_fill(acc.grid, pos, block.size, block.id)
         IN IF f.ok
            THEN [grid |-> f.m,
                  next_block_id |-> acc.next_block_id + 1,
                  result_blocks |-> Append(acc.result_blocks, Block(block.id, pos, block.size)),
                  holes |-> acc.holes]
            ELSE [acc EXCEPT !.holes = acc.holes \cup {pos}]
    ELSE [acc EXCEPT !.holes = acc.holes \cup {pos}]

RECURSIVE FinalScan(_, _, _, _)
FinalScan(acc, i, size, blocks) ==
    IF i > size[1] * size[2] THEN acc
    ELSE LET next == FinalStep(acc, RowMajor(size)[i], blocks)
         IN \* both branches are the scan of the remaining cells from next; the
            \* comparison has cell i evaluated before cell i + 1 is entered
            IF next = acc THEN FinalScan(acc, i + 1, size, blocks)
            ELSE FinalScan(next, i + 1, size, blocks)

generate_final_state(size, blocks) ==
    LET acc == FinalScan([grid |-> Matrix2D_fill(size, 0), next_block_id |-> 0,
                          result_blocks |-> <<>>, holes |-> {}], 1, size, blocks)
    IN \* result_blocks.get(next_block_id).is_some()
       IF acc.next_block_id + 1 <= Len(acc.result_blocks)
       THEN Err("UnfittableLayout")
       ELSE [ok |-> TRUE, state |-> BoardState_new(acc.holes, acc.result_blocks)]

generate_possible_movesMutNoInverse(holes, id_grid) ==
    {<<get(id_grid, VAdd(hole, to_vec2(d))).v, d>> :
        <<hole, d>> \in {hd \in holes \X Dirs :
                            /\ get(id_grid, VAdd(hd[1], to_vec2(hd[2]))).some
                            /\ get(id_grid, VAdd(hd[1], to_vec2(hd[2]))).v # 0}}

generate_possible_movesMutSkipUp(holes, id_grid) ==
    {<<get(id_grid, VAdd(hole, to_vec2(d))).v, inverse(d)>> :
        <<hole, d>> \in {hd \in holes \X (Dirs \ {"Up"}) :
                            /\ get(id_grid, VAdd(hd[1], to_vec2(hd[2]))).some
                            /\ get(id_grid, VAdd(hd[1], to_vec2(hd[2]))).v # 0}}

generate_possible_movesMutOneHole(holes, id_grid) ==
    {<<get(id_grid, VAdd(hole, to_vec2(d))).v, inverse(d)>> :
        <<hole, d>> \in {hd \in holes \X Dirs :
                            /\ \A h \in holes : hd[1][2] < h[2] \/ (hd[1][2] = h[2] /\ hd[1][1] <= h[1])
                            /\ get(id_grid, VAdd(hd[1], to_vec2(hd[2]))).some
                            /\ get(id_grid, VAdd(hd[1], to_vec2(hd[2]))).v # 0}}

generate_possible_moves(holes, id_grid) ==
    {<<get(id_grid, VAdd(hole, to_vec2(d))).v, inverse(d)>> :
        <<hole, d>> \in {hd \in holes \X Dirs :
                            /\ get(id_grid, VAdd(hd[1], to_vec2(hd[2]))).some
                            /\ get(id_grid, VAdd(hd[1], to_vec2(hd[2]))).v # 0}}

\* TryFrom<Matrix2D<i8>> for Board
Board_try_from(grid) ==
    LET holes == {p \in Rect(Vec2(0, 0), grid.size) : get(grid, p).v = 0}
        pb == parse_blocks(grid)
    IN IF ~pb.ok THEN pb
       ELSE LET state == BoardState_new(holes, pb.blocks)
                fs == generate_final_state(grid.size, state.blocks)
            IN IF ~fs.ok THEN fs
               ELSE [ok |-> TRUE,
                     board |-> [grid |-> grid,
                                state |-> state,
                                final_state |-> fs.state,
                                _possible_moves |-> generate_possible_moves(state.holes, grid)]]

\* is_valid_move, lines 266-275: the verdict on one destination cell
CheckCellMutNoRange(b, id, after_move) ==
    LET c == get(b.grid, after_move)
    IN IF c.some /\ c.v # 0 /\ c.v # id THEN "Blocked" ELSE "Ok"

CheckCell(b, id, after_move) ==
    LET c == get(b.grid, after_move)
    IN IF c.some
       THEN IF c.v # 0 /\ c.v # id THEN "Blocked" ELSE "Ok"
       ELSE "OutOfRange"

\* is_valid_move, lines 262-264: the cells of the block, dx outer, dy inner
BlockCellsMutFirst(block) == <<block.pos>>

BlockCells(block) ==
    [k \in 1..(block.size[1] * block.size[2]) |->
        VAdd(block.pos, Vec2((k - 1) \div block.size[2], (k - 1) % block.size[2]))]

\* "Ok", or the error of the first cell that fails: "NotFound", "Blocked", "OutOfRange"
is_valid_move(b, id, dir) ==
    IF id - 1 < 0 \/ id - 1 >= Len(b.state.blocks) THEN "NotFound"
    ELSE LET block == b.state.blocks[id]
             move_vec == to_vec2(dir)
             cells == BlockCells(block)
             verdict == [k \in DOMAIN cells |-> CheckCell(b, id, VAdd(cells[k], move_vec))]
             fails == {k \in DOMAIN cells : verdict[k] # "Ok"}
         IN IF fails = {} THEN "Ok"
            ELSE verdict[CHOOSE k \in fails : \A j \in fails : k <= j]

HolesInsertMutSkip(holes, block) == holes

HolesRemoveMutAnchor(holes, pos, size) == holes \ {pos}

\* move_block, lines 230-235: the cells of the old footprint become holes
HolesInsert(holes, block) == holes \cup Rect(block.pos, block.size)

\* move_block, lines 238-243: the cells of the new footprint stop being holes
HolesRemove(holes, pos, size) == holes \ Rect(pos, size)

\* Returns [res, board]: the Result and the Board the call leaves behind.
move_block(b, id, dir) ==
    LET v == is_valid_move(b, id, dir) IN
    IF v # "Ok" THEN [res |-> v, board |-> b]
    ELSE
    LET block == b.state.blocks[id]
        f1 == try_fill(b.grid, block.pos, block.size, 0)
        holes1 == HolesInsert(b.state.holes, block)
        newpos == VAdd(block.pos, to_vec2(dir))
        blocks1 == [b.state.blocks EXCEPT ![id].pos = newpos]
        f2 == try_fill(f1.m, newpos, block.size, block.id)
        holes2 == HolesRemove(holes1, newpos, block.size)
    IN IF ~f1.ok THEN [res |-> "FillError", board |-> b]
       ELSE IF ~f2.ok
       THEN [res |-> "FillError",
             board |-> [b EXCEPT !.grid = f1.m,
                                 !.state = BoardState_new(holes1, blocks1)]]
       ELSE [res |-> "Ok",
             board |-> [b EXCEPT !.grid = f2.m,
                                 !.state = BoardState_new(holes2, blocks1),
                                 !._possible_moves = generate_possible_moves(holes2, f2.m)]]

is_goal(b) == b.state = b.final_state

possible_moves(b) == b._possible_moves

RECURSIVE SumTo(_, _)
SumTo(f, n) == IF n = 0 THEN 0 ELSE f[n] + SumTo(f, n - 1)

MinMutLast(a, b) == b

Min(a, b) == IF a < b THEN a ELSE b

Max(a, b) == IF a > b THEN a ELSE b

heuristicMutSquare(b) ==
    LET n == Min(Len(b.state.blocks), Len(b.final_state.blocks))
        d == [i \in 1..n |->
                (Abs(b.state.blocks[i].pos[1] - b.final_state.blocks[i].pos[1])
                 + Abs(b.state.blocks[i].pos[2] - b.final_state.blocks[i].pos[2])) * 2]
    IN SumTo(d, n)

\* zip stops at the shorter of the two block lists
heuristic(b) ==
    LET n == Min(Len(b.state.blocks), Len(b.final_state.blocks))
        d == [i \in 1..n |->
                Abs(b.state.blocks[i].pos[1] - b.final_state.blocks[i].pos[1])
                + Abs(b.state.blocks[i].pos[2] - b.final_state.blocks[i].pos[2])]
    IN SumTo(d, n)

-----------------------------------------------------------------------------
(* Input grids and the boards constructed from them *)

GridsOf(size) ==
    {[size |-> size, store |-> s] : s \in [1..(size[1] * size[2]) -> 0..MaxBlocks]}

ConstructedFrom(sizes) ==
    {r.board : r \in {x \in {Board_try_from(g) : g \in UNION {GridsOf(sz) : sz \in sizes}} :
                         x.ok}}

NoCall == [id |-> 0, dir |-> "Up", res |-> "NoCall"]

NoResult == [kind |-> "none", moves |-> <<>>]

NoRet == [kind |-> "none", moves |-> <<>>, val |-> 0]

Algos == {"iddfs", "iddfs2", "idastar"}

Unrun == [kind |-> "unrun", len |-> 0]

\* no text written yet
NoText == <<>>

NoMatrixCall == [op |-> "none", pos |-> <<0, 0>>, size |-> <<0, 0>>, value |-> 0, res |-> "none"]

NoBoard == [grid |-> Matrix2D_fill(Vec2(0, 0), 0),
            state |-> BoardState_new({}, <<>>),
            final_state |-> BoardState_new({}, <<>>),
            _possible_moves |-> {}]

-----------------------------------------------------------------------------
(* Specification of the Board under arbitrary move_block calls *)

\* ids a caller may pass: one below and one above the dense range included
CallIds == 0..(MaxBlocks + 1)

\* board files of 2 rows and 4 columns, beside all those of BoardSizes:
\*   3 0 1 1      1 1 2 0
\*   3 0 2 2      3 0 2 0
\* (in the first, the goal layout places blocks 1 and 2 in the first row and
\* block 3, one cell wide and two high, fits nowhere in the second)
LongGrids ==
    {[size |-> <<4, 2>>, store |-> <<3, 0, 1, 1, 3, 0, 2, 2>>],
     [size |-> <<4, 2>>, store |-> <<1, 1, 2, 0, 3, 0, 2, 0>>]}

\* the Boards constructed from the given grids
ConstructedOf(grids) ==
    {r.board : r \in {x \in {Board_try_from(g) : g \in grids} : x.ok}}

InitBoard ==
    /\ board \in ConstructedFrom(BoardSizes) \cup ConstructedOf(LongGrids)
    /\ orig = NoBoard
    /\ holes0 = Cardinality(board.state.holes)
    /\ prev = board
    /\ last = NoCall
    /\ algo = "none"
    /\ pc = "idle"
    /\ stack = <<>>
    /\ visited = {}
    /\ ret = NoRet
    /\ limit = 0
    /\ result = NoResult
    /\ outcome = [a \in Algos |-> Unrun]
    /\ fseen = {}
    /\ mat = NoBoard.grid
    /\ mat0 = NoBoard.grid
    /\ mcall = NoMatrixCall
    /\ text = NoText
    /\ input = NoBoard.grid
    /\ built = "Ok"

MoveBlockCall ==
    /\ algo = "none"
    /\ \E id \in CallIds, dir \in Dirs :
          LET r == move_block(board, id, dir)
          IN /\ board' = r.board
             /\ prev' = board
             /\ last' = [id |-> id, dir |-> dir, res |-> r.res]
    /\ UNCHANGED <<text, fseen, mat, mat0, mcall, input, built, orig, holes0, algo, pc, stack, visited, ret, limit, result, outcome>>

NextBoard == MoveBlockCall

SpecBoard == InitBoard /\ [][NextBoard]_vars

-----------------------------------------------------------------------------
(* search.rs: the search engines as a stack machine *)

\* Largest depth limit the legacy iddfs outer loop is followed to.
MaxLimit == 5

\* Grid sizes of the boards handed to the search engines.
SearchSizes == {<<2, 2>>}

Ok(moves) == [kind |-> "Ok", moves |-> moves, val |-> 0]

ErrVal(v) == [kind |-> "Err", moves |-> <<>>, val |-> v]

ReverseMutKeep(s) == s

\* moves.reverse()
Reverse(s) == [i \in 1..Len(s) |-> s[Len(s) + 1 - i]]

VisitedRemoveMutKeep(v, st) == v

\* visited.remove(board.state())
VisitedRemoveMutClear(v, st) == {}

VisitedRemove(v, st) == v \ {st}

NoMove == <<0, "Up">>

\* A frame of dfs / _idastar that has passed the visited check.
\*   lim: dfs `limit`; _idastar `f_limit` (mutable)     g: `g_value`
\*   rem: dfs `remain_limit`     fv: `f_value` of the candidate applied
\*   cands: candidates the for loop has still to yield     cur: the candidate applied
Frame(lim, g, b) ==
    [lim |-> lim, g |-> g, rem |-> lim, fv |-> 0, cands |-> possible_moves(b), cur |-> NoMove]

Top == stack[Len(stack)]

Pop == SubSeq(stack, 1, Len(stack) - 1)

SetTop(f) == [stack EXCEPT ![Len(stack)] = f]

InitSearch ==
    /\ orig \in ConstructedFrom(SearchSizes)
    /\ board = orig
    /\ holes0 = Cardinality(orig.state.holes)
    /\ prev = orig
    /\ last = NoCall
    /\ algo = "none"
    /\ pc = "idle"
    /\ stack = <<>>
    /\ visited = {}
    /\ ret = NoRet
    /\ limit = 0
    /\ result = NoResult
    /\ outcome = [a \in Algos |-> Unrun]
    /\ fseen = {}
    /\ mat = NoBoard.grid
    /\ mat0 = NoBoard.grid
    /\ mcall = NoMatrixCall
    /\ text = NoText
    /\ input = NoBoard.grid
    /\ built = "Ok"

\* A caller (main, the benchmark) hands orig to one of the engines; once an
\* iddfs has returned it may hand the same board to idastar.
StartSearch ==
    /\ pc \in {"idle", "done"}
    /\ \E a \in Algos :
          /\ outcome[a].kind = "unrun"
          /\ pc = "done" => a = "idastar"
          /\ algo' = a
          /\ limit' = IF a = "idastar" THEN heuristic(orig) ELSE 1
    /\ pc' = "round"
    /\ result' = NoResult
    /\ ret' = NoRet
    /\ UNCHANGED <<text, fseen, mat, mat0, mcall, input, built, board, orig, holes0, prev, last, stack, visited, outcome>>

\* One pass of the outer loop: the call on board.clone() with a Default visited set.
StartRound ==
    /\ pc = "round"
    /\ board' = orig
    /\ visited' = {}
    /\ fseen' = {}
    /\ stack' = <<>>
    /\ pc' = "call"
    /\ UNCHANGED <<text, mat, mat0, mcall, input, built, orig, holes0, prev, last, algo, ret, limit, result, outcome>>

Finish(r) ==
    /\ result' = r
    /\ outcome' = [outcome EXCEPT ![algo] = [kind |-> r.kind, len |-> Len(r.moves)]]
    /\ pc' = "done"

DfsArgMutNoDecrement == IF stack = <<>> THEN limit ELSE Top.lim

DfsArgMutTwo == IF stack = <<>> THEN limit ELSE Top.lim - 2

\* `limit` argument of the dfs call being entered
DfsArg == IF stack = <<>> THEN limit ELSE Top.lim - 1

(* src/src/search.rs: iddfs / dfs, which return Option *)

DfsEnter ==
    /\ pc = "call" /\ algo = "iddfs"
    /\ IF is_goal(board)
       THEN ret' = Ok(<<>>) /\ pc' = "ret" /\ UNCHANGED <<stack, visited>>
       ELSE IF DfsArg <= 0
       THEN ret' = ErrVal(0) /\ pc' = "ret" /\ UNCHANGED <<stack, visited>>
       ELSE IF board.state \in visited
       THEN ret' = ErrVal(0) /\ pc' = "ret" /\ UNCHANGED <<stack, visited>>
       ELSE /\ visited' = visited \cup {board.state}
            /\ stack' = Append(stack, Frame(DfsArg, 0, board))
            /\ pc' = "loop"
            /\ UNCHANGED ret
    /\ UNCHANGED <<text, fseen, mat, mat0, mcall, input, built, board, orig, holes0, prev, last, algo, limit, result, outcome>>

DfsLoop ==
    /\ pc = "loop" /\ algo = "iddfs"
    /\ IF Top.cands = {}
       THEN /\ visited' = VisitedRemove(visited, board.state)
            /\ ret' = ErrVal(0)
            /\ stack' = Pop
            /\ pc' = "ret"
            /\ UNCHANGED board
       ELSE \E mv \in Top.cands :
              LET r == move_block(board, mv[1], mv[2])
              IN /\ board' = r.board
                 /\ IF r.res # "Ok"
                    THEN /\ stack' = SetTop([Top EXCEPT !.cands = @ \ {mv}])
                         /\ pc' = "loop"
                    ELSE /\ stack' = SetTop([Top EXCEPT !.cands = @ \ {mv}, !.cur = mv])
                         /\ pc' = "call"
                 /\ UNCHANGED <<visited, ret>>
    /\ UNCHANGED <<text, fseen, mat, mat0, mcall, input, built, orig, holes0, prev, last, algo, limit, result, outcome>>

DfsReturn ==
    /\ pc = "ret" /\ algo = "iddfs" /\ stack # <<>>
    /\ IF ret.kind = "Ok"
       THEN /\ ret' = Ok(Append(ret.moves, Top.cur))
            /\ stack' = Pop
            /\ pc' = "ret"
            /\ UNCHANGED board
       ELSE LET u == move_block(board, Top.cur[1], inverse(Top.cur[2]))
            IN /\ board' = u.board
               /\ pc' = IF u.res = "Ok" THEN "loop" ELSE "panic"
               /\ UNCHANGED <<stack, ret>>
    /\ UNCHANGED <<text, fseen, mat, mat0, mcall, input, built, orig, holes0, prev, last, algo, visited, limit, result, outcome>>

IddfsOuterMutGiveUp ==
    /\ pc = "ret" /\ algo = "iddfs" /\ stack = <<>>
    /\ IF ret.kind = "Ok"
       THEN Finish([kind |-> "Some", moves |-> Reverse(ret.moves)]) /\ UNCHANGED limit
       ELSE IF limit >= 3
       THEN Finish([kind |-> "None", moves |-> <<>>]) /\ UNCHANGED limit
       ELSE /\ limit < MaxLimit
            /\ limit' = limit + 1
            /\ pc' = "round"
            /\ UNCHANGED <<result, outcome>>
    /\ UNCHANGED <<text, fseen, mat, mat0, mcall, input, built, board, orig, holes0, prev, last, algo, stack, visited, ret>>

IddfsOuterMutSkip ==
    /\ pc = "ret" /\ algo = "iddfs" /\ stack = <<>>
    /\ IF ret.kind = "Ok"
       THEN Finish([kind |-> "Some", moves |-> Reverse(ret.moves)]) /\ UNCHANGED limit
       ELSE /\ limit < MaxLimit
            /\ limit' = limit + 2
            /\ pc' = "round"
            /\ UNCHANGED <<result, outcome>>
    /\ UNCHANGED <<text, fseen, mat, mat0, mcall, input, built, board, orig, holes0, prev, last, algo, stack, visited, ret>>

IddfsOuter ==
    /\ pc = "ret" /\ algo = "iddfs" /\ stack = <<>>
    /\ IF ret.kind = "Ok"
       THEN Finish([kind |-> "Some", moves |-> Reverse(ret.moves)]) /\ UNCHANGED limit
       ELSE /\ limit < MaxLimit
            /\ limit' = limit + 1
            /\ pc' = "round"
            /\ UNCHANGED <<result, outcome>>
    /\ UNCHANGED <<text, fseen, mat, mat0, mcall, input, built, board, orig, holes0, prev, last, algo, stack, visited, ret>>

(* sliding-puzzle-search/src/search.rs: iddfs / dfs, which return Result<_, i32> *)

Dfs2Enter ==
    /\ pc = "call" /\ algo = "iddfs2"
    /\ IF is_goal(board)
       THEN ret' = Ok(<<>>) /\ pc' = "ret" /\ UNCHANGED <<stack, visited>>
       ELSE IF DfsArg <= 0
       THEN ret' = ErrVal(0) /\ pc' = "ret" /\ UNCHANGED <<stack, visited>>
       ELSE IF board.state \in visited
       THEN ret' = ErrVal(DfsArg) /\ pc' = "ret" /\ UNCHANGED <<stack, visited>>
       ELSE /\ visited' = visited \cup {board.state}
            /\ stack' = Append(stack, Frame(DfsArg, 0, board))
            /\ pc' = "loop"
            /\ UNCHANGED ret
    /\ UNCHANGED <<text, fseen, mat, mat0, mcall, input, built, board, orig, holes0, prev, last, algo, limit, result, outcome>>

Dfs2Loop ==
    /\ pc = "loop" /\ algo = "iddfs2"
    /\ IF Top.cands = {}
       THEN /\ visited' = VisitedRemove(visited, board.state)
            /\ ret' = ErrVal(Top.rem)
            /\ stack' = Pop
            /\ pc' = "ret"
            /\ UNCHANGED board
       ELSE \E mv \in Top.cands :
              LET r == move_block(board, mv[1], mv[2])
              IN /\ board' = r.board
                 /\ IF r.res # "Ok"
                    THEN /\ stack' = SetTop([Top EXCEPT !.cands = @ \ {mv}])
                         /\ pc' = "loop"
                    ELSE /\ stack' = SetTop([Top EXCEPT !.cands = @ \ {mv}, !.cur = mv])
                         /\ pc' = "call"
                 /\ UNCHANGED <<visited, ret>>
    /\ UNCHANGED <<text, fseen, mat, mat0, mcall, input, built, orig, holes0, prev, last, algo, limit, result, outcome>>

Dfs2Return ==
    /\ pc = "ret" /\ algo = "iddfs2" /\ stack # <<>>
    /\ IF ret.kind = "Ok"
       THEN /\ ret' = Ok(Append(ret.moves, Top.cur))
            /\ stack' = Pop
            /\ pc' = "ret"
            /\ UNCHANGED board
       ELSE LET u == move_block(board, Top.cur[1], inverse(Top.cur[2]))
            IN /\ board' = u.board
               /\ stack' = SetTop([Top EXCEPT !.rem = Min(@, ret.val)])
               /\ pc' = IF u.res = "Ok" THEN "loop" ELSE "panic"
               /\ UNCHANGED ret
    /\ UNCHANGED <<text, fseen, mat, mat0, mcall, input, built, orig, holes0, prev, last, algo, visited, limit, result, outcome>>

Iddfs2OuterMutGiveUp ==
    /\ pc = "ret" /\ algo = "iddfs2" /\ stack = <<>>
    /\ IF ret.kind = "Ok"
       THEN Finish([kind |-> "Some", moves |-> Reverse(ret.moves)]) /\ UNCHANGED limit
       ELSE IF ret.val >= 0
       THEN Finish([kind |-> "None", moves |-> <<>>]) /\ UNCHANGED limit
       ELSE /\ limit < MaxLimit
            /\ limit' = limit + 1
            /\ pc' = "round"
            /\ UNCHANGED <<result, outcome>>
    /\ UNCHANGED <<text, fseen, mat, mat0, mcall, input, built, board, orig, holes0, prev, last, algo, stack, visited, ret>>

Iddfs2Outer ==
    /\ pc = "ret" /\ algo = "iddfs2" /\ stack = <<>>
    /\ IF ret.kind = "Ok"
       THEN Finish([kind |-> "Some", moves |-> Reverse(ret.moves)]) /\ UNCHANGED limit
       ELSE IF ret.val > 0
       THEN Finish([kind |-> "None", moves |-> <<>>]) /\ UNCHANGED limit
       ELSE /\ limit < MaxLimit
            /\ limit' = limit + 1
            /\ pc' = "round"
            /\ UNCHANGED <<result, outcome>>
    /\ UNCHANGED <<text, fseen, mat, mat0, mcall, input, built, board, orig, holes0, prev, last, algo, stack, visited, ret>>

(* sliding-puzzle-search/src/search.rs and src/src/search.rs: idastar / _idastar *)

IdastarArgF == IF stack = <<>> THEN limit ELSE Top.lim

IdastarArgG == IF stack = <<>> THEN 0 ELSE Top.g + 1

IdastarEnter ==
    /\ pc = "call" /\ algo = "idastar"
    /\ IF is_goal(board)
       THEN ret' = Ok(<<>>) /\ pc' = "ret" /\ UNCHANGED <<stack, visited>>
       ELSE IF board.state \in visited
       THEN ret' = ErrVal(IdastarArgF) /\ pc' = "ret" /\ UNCHANGED <<stack, visited>>
       ELSE /\ visited' = visited \cup {board.state}
            /\ stack' = Append(stack, Frame(IdastarArgF, IdastarArgG, board))
            /\ pc' = "loop"
            /\ UNCHANGED ret
    /\ UNCHANGED <<text, fseen, mat, mat0, mcall, input, built, board, orig, holes0, prev, last, algo, limit, result, outcome>>

FValueMutNoH(g_value, child) == g_value

FValueMutNoG(g_value, child) == heuristic(child)

\* f_value of the child the candidate leads to
FValue(g_value, child) == g_value + heuristic(child)

IdastarLoop ==
    /\ pc = "loop" /\ algo = "idastar"
    /\ IF Top.cands = {}
       THEN /\ visited' = VisitedRemove(visited, board.state)
            /\ ret' = ErrVal(Top.lim)
            /\ stack' = Pop
            /\ pc' = "ret"
            /\ UNCHANGED <<board, fseen>>
       ELSE \E mv \in Top.cands :
              LET r == move_block(board, mv[1], mv[2])
                  f_value == FValue(Top.g, r.board)
                  u == move_block(r.board, mv[1], inverse(mv[2]))
              IN /\ fseen' = IF r.res # "Ok" THEN fseen ELSE fseen \cup {f_value}
                 /\ IF r.res # "Ok"
                    THEN /\ board' = r.board
                         /\ stack' = SetTop([Top EXCEPT !.cands = @ \ {mv}])
                         /\ pc' = "loop"
                    ELSE IF f_value < Top.lim
                    THEN /\ board' = r.board
                         /\ stack' = SetTop([Top EXCEPT !.cands = @ \ {mv}, !.cur = mv,
                                                        !.fv = f_value])
                         /\ pc' = "call"
                    ELSE /\ board' = u.board
                         /\ stack' = SetTop([Top EXCEPT !.cands = @ \ {mv}, !.cur = mv,
                                                        !.fv = f_value,
                                                        !.lim = Max(@, f_value)])
                         /\ pc' = IF u.res = "Ok" THEN "loop" ELSE "panic"
                 /\ UNCHANGED <<visited, ret>>
    /\ UNCHANGED <<text, mat, mat0, mcall, input, built, orig, holes0, prev, last, algo, limit, result, outcome>>

IdastarReturn ==
    /\ pc = "ret" /\ algo = "idastar" /\ stack # <<>>
    /\ IF ret.kind = "Ok"
       THEN /\ ret' = Ok(Append(ret.moves, Top.cur))
            /\ stack' = Pop
            /\ pc' = "ret"
            /\ UNCHANGED board
       ELSE LET u == move_block(board, Top.cur[1], inverse(Top.cur[2]))
            IN /\ board' = u.board
               /\ stack' = SetTop([Top EXCEPT !.lim = Max(@, Top.fv)])
               /\ pc' = IF u.res = "Ok" THEN "loop" ELSE "panic"
               /\ UNCHANGED ret
    /\ UNCHANGED <<text, fseen, mat, mat0, mcall, input, built, orig, holes0, prev, last, algo, visited, limit, result, outcome>>

IdastarOuterMutRetryEqual ==
    /\ pc = "ret" /\ algo = "idastar" /\ stack = <<>>
    /\ IF ret.kind = "Ok"
       THEN Finish([kind |-> "Some", moves |-> Reverse(ret.moves)]) /\ UNCHANGED limit
       ELSE IF ret.val < limit
       THEN Finish([kind |-> "None", moves |-> <<>>]) /\ UNCHANGED limit
       ELSE /\ limit' = ret.val
            /\ pc' = "round"
            /\ UNCHANGED <<result, outcome>>
    /\ UNCHANGED <<text, fseen, mat, mat0, mcall, input, built, board, orig, holes0, prev, last, algo, stack, visited, ret>>

IdastarOuterMutRetry ==
    /\ pc = "ret" /\ algo = "idastar" /\ stack = <<>>
    /\ IF ret.kind = "Ok"
       THEN Finish([kind |-> "Some", moves |-> Reverse(ret.moves)]) /\ UNCHANGED limit
       ELSE /\ limit' = ret.val
            /\ pc' = "round"
            /\ UNCHANGED <<result, outcome>>
    /\ UNCHANGED <<text, fseen, mat, mat0, mcall, input, built, board, orig, holes0, prev, last, algo, stack, visited, ret>>

IdastarOuter ==
    /\ pc = "ret" /\ algo = "idastar" /\ stack = <<>>
    /\ IF ret.kind = "Ok"
       THEN Finish([kind |-> "Some", moves |-> Reverse(ret.moves)]) /\ UNCHANGED limit
       ELSE IF ret.val <= limit
       THEN Finish([kind |-> "None", moves |-> <<>>]) /\ UNCHANGED limit
       ELSE /\ limit' = ret.val
            /\ pc' = "round"
            /\ UNCHANGED <<result, outcome>>
    /\ UNCHANGED <<text, fseen, mat, mat0, mcall, input, built, board, orig, holes0, prev, last, algo, stack, visited, ret>>

NextSearch ==
    \/ StartSearch
    \/ StartRound
    \/ DfsEnter
    \/ DfsLoop
    \/ DfsReturn
    \/ IddfsOuter
    \/ Dfs2Enter
    \/ Dfs2Loop
    \/ Dfs2Return
    \/ Iddfs2Outer
    \/ IdastarEnter
    \/ IdastarLoop
    \/ IdastarReturn
    \/ IdastarOuter

Spec == InitSearch /\ [][NextSearch]_vars

-----------------------------------------------------------------------------
(* Reference notions the claims are stated with *)

\* Apply moves in list order with move_block; ok iff every call was accepted.
RECURSIVE ApplyMoves(_, _)
ApplyMoves(b, moves) ==
    IF moves = <<>> THEN [ok |-> TRUE, board |-> b]
    ELSE LET r == move_block(b, Head(moves)[1], Head(moves)[2])
         IN IF r.res # "Ok" THEN [ok |-> FALSE, board |-> r.board]
            ELSE ApplyMoves(r.board, Tail(moves))

\* The boards one accepted move away from b.
Successors(b) ==
    {r.board : r \in {x \in {move_block(b, m[1], m[2]) : m \in (1..Len(b.state.blocks)) \X Dirs} :
                         x.res = "Ok"}}

\* Breadth-first distance from the frontier to a goal state; -1 if none is reachable.
RECURSIVE BfsDist(_, _, _)
BfsDist(frontier, seen, d) ==
    IF \E b \in frontier : is_goal(b) THEN d
    ELSE IF frontier = {} THEN -1
    ELSE LET next == (UNION {Successors(b) : b \in frontier}) \ seen
         IN BfsDist(next, seen \cup next, d + 1)

ShortestDistance(b) == BfsDist({b}, {b}, 0)

Returned == pc = "done"

-----------------------------------------------------------------------------
(* Claims *)

\* C1: whenever iddfs or idastar returns Some(moves), applying the moves in
\* list order to the original board with move_block succeeds at every step and
\* the board reached after the last move satisfies is_goal().
C1_SearchSound ==
    (Returned /\ result.kind = "Some") =>
        LET r == ApplyMoves(orig, result.moves)
        IN r.ok /\ is_goal(r.board)

\* C1 witness: idastar has returned a list of at least two moves for a board
\* for which an iddfs returned Some before.
C1_Witness ==
    /\ Returned /\ algo = "idastar" /\ result.kind = "Some"
    /\ Len(result.moves) >= 2
    /\ \E a \in {"iddfs", "iddfs2"} : outcome[a].kind = "Some" /\ outcome[a].len >= 2

\* C2: whenever iddfs (either crate) returns Some(moves), moves.len() equals
\* the breadth-first shortest distance from the initial board to a goal state.
C2_IddfsOptimal ==
    (Returned /\ algo \in {"iddfs", "iddfs2"} /\ result.kind = "Some") =>
        Len(result.moves) = ShortestDistance(orig)

\* C2 witness: an iddfs has returned a solution of at least three moves.
C2_Witness ==
    Returned /\ algo \in {"iddfs", "iddfs2"} /\ result.kind = "Some" /\ Len(result.moves) >= 3

\* C3: whenever idastar returns Some(moves), moves has the minimum possible
\* length, which is also the length of the list an iddfs returned for the same board.
C3_IdastarOptimal ==
    (Returned /\ algo = "idastar" /\ result.kind = "Some") =>
        /\ Len(result.moves) = ShortestDistance(orig)
        /\ \A a \in {"iddfs", "iddfs2"} :
              outcome[a].kind = "Some" => outcome[a].len = Len(result.moves)

\* C3 witness: idastar has returned at least two moves after an iddfs returned Some.
C3_Witness ==
    /\ Returned /\ algo = "idastar" /\ result.kind = "Some" /\ Len(result.moves) >= 2
    /\ outcome["iddfs"].kind = "Some"

\* C4 (as claimed): idastar returns None only when no goal state is reachable.
C4_IdastarComplete ==
    (Returned /\ algo = "idastar" /\ result.kind = "None") =>
        ShortestDistance(orig) = -1

\* C4 witness of the failing case: idastar has returned None for a board that
\* an iddfs solved.
C4_Witness ==
    /\ Returned /\ algo = "idastar" /\ result.kind = "None"
    /\ outcome["iddfs2"].kind = "Some"

Solvable(b) == ShortestDistance(b) >= 0

\* The steps of a running iddfs (either crate).
IddfsSteps ==
    \/ StartRound
    \/ DfsEnter \/ DfsLoop \/ DfsReturn \/ IddfsOuter
    \/ Dfs2Enter \/ Dfs2Loop \/ Dfs2Return \/ Iddfs2Outer

\* The states in which a step of IddfsSteps can be taken: ENABLED <<IddfsSteps>>_vars
\* written out (the outer loops are followed up to MaxLimit only).
IddfsEnabled ==
    \/ pc = "round"
    \/ /\ algo \in {"iddfs", "iddfs2"}
       /\ \/ pc \in {"call", "loop"}
          \/ pc = "ret" /\ stack # <<>>
          \/ pc = "ret" /\ stack = <<>> /\ ret.kind = "Ok"
          \/ pc = "ret" /\ stack = <<>> /\ limit < MaxLimit
          \/ pc = "ret" /\ stack = <<>> /\ algo = "iddfs2" /\ ret.val > 0

\* A search that was called runs on: it is sequential code with no blocking
\* call, so a step that is enabled is eventually taken. This is
\* WF_vars(IddfsSteps) with its ENABLED written out as IddfsEnabled.
SpecFair ==
    /\ InitSearch /\ [][NextSearch]_vars
    /\ ([]<>(~IddfsEnabled) \/ []<><<IddfsSteps>>_vars)

IdastarSteps ==
    \/ StartRound
    \/ IdastarEnter \/ IdastarLoop \/ IdastarReturn \/ IdastarOuter

\* The states in which a step of IdastarSteps can be taken:
\* ENABLED <<IdastarSteps>>_vars written out.
IdastarEnabled ==
    \/ pc = "round"
    \/ algo = "idastar" /\ pc \in {"call", "loop", "ret"}

\* idastar is sequential code with no blocking call as well: this is
\* WF_vars(IdastarSteps) with its ENABLED written out as IdastarEnabled.
SpecFairIdastar ==
    /\ InitSearch /\ [][NextSearch]_vars
    /\ ([]<>(~IdastarEnabled) \/ []<><<IdastarSteps>>_vars)

\* C5: if a goal state is reachable from the initial board (within the depth
\* limits followed, MaxLimit), an iddfs that is started eventually terminates
\* and returns Some(moves).
C5_IddfsComplete ==
    (/\ algo \in {"iddfs", "iddfs2"} /\ pc = "round" /\ limit = 1
     /\ Solvable(orig) /\ ShortestDistance(orig) <= MaxLimit)
        ~> (Returned /\ algo \in {"iddfs", "iddfs2"} /\ result.kind = "Some")

\* C5 witness: an iddfs has returned Some after at least three rounds.
C5_Witness ==
    Returned /\ algo \in {"iddfs", "iddfs2"} /\ result.kind = "Some" /\ limit >= 3

-----------------------------------------------------------------------------
(* Claims about the Board, under SpecBoard *)

Accepted == last.res = "Ok"

Rejected == last.res \in {"Blocked", "OutOfRange", "NotFound", "FillError"}

\* C7: after an accepted move_block(id, d) the call move_block(id, inverse(d))
\* is accepted too and leaves a Board equal to the one before the first move;
\* after the first move alone the Board differs from it.
C7_MoveUndo ==
    Accepted =>
        LET u == move_block(board, last.id, inverse(last.dir))
        IN u.res = "Ok" /\ u.board = prev /\ board # prev

\* C7 witness: a block of more than one cell has been moved.
C7_Witness ==
    Accepted /\ board.state.blocks[last.id].size # Vec2(1, 1)

Cells(b) == Rect(Vec2(0, 0), b.grid.size)

CellAt(b, p) == b.grid.store[p[2] * b.grid.size[1] + p[1] + 1]

Footprint(blk) ==
    {p \in (blk.pos[1]..(blk.pos[1] + blk.size[1] - 1))
             \X (blk.pos[2]..(blk.pos[2] + blk.size[2] - 1)) : TRUE}

\* C8: in every reachable Board every block's rectangle lies inside the grid
\* and holds the block's id, no two rectangles overlap, the hole set is the
\* set of cells holding 0, and the number of holes is that at construction.
C8_Occupancy ==
    /\ \A i \in DOMAIN board.state.blocks :
          LET blk == board.state.blocks[i]
          IN /\ blk.id = i
             /\ Footprint(blk) \subseteq Cells(board)
             /\ \A p \in Footprint(blk) : CellAt(board, p) = i
    /\ \A i, j \in DOMAIN board.state.blocks :
          i # j => Footprint(board.state.blocks[i]) \cap Footprint(board.state.blocks[j]) = {}
    /\ board.state.holes = {p \in Cells(board) : CellAt(board, p) = 0}
    /\ Cardinality(board.state.holes) = holes0

\* C8 witness: a block of more than one cell has just been moved on a board
\* with another block and a hole left.
C8_Witness ==
    /\ Accepted /\ board.state.blocks[last.id].size # Vec2(1, 1)
    /\ Len(board.state.blocks) >= 2 /\ board.state.holes # {}

\* the cells the footprint of block id of b would cover after a move in dir
Shifted(b, id, dir) ==
    {VAdd(p, to_vec2(dir)) : p \in Footprint(b.state.blocks[id])}

\* C9: move_block(id, dir) is accepted exactly when every shifted footprint
\* cell is inside the grid and holds 0 or id; it is rejected as blocked when
\* some shifted cell holds another block's id and as out of range when some
\* shifted cell lies outside the grid.
C9_MoveValidation ==
    (last.res # "NoCall" /\ last.id \in DOMAIN prev.state.blocks) =>
        LET sh == Shifted(prev, last.id, last.dir)
            outside == {p \in sh : p \notin Cells(prev)}
            foreign == {p \in sh \ outside : CellAt(prev, p) \notin {0, last.id}}
        IN /\ Accepted <=> (outside = {} /\ foreign = {})
           /\ last.res = "Blocked" <=> foreign # {}
           /\ last.res = "OutOfRange" <=> outside # {}

\* C9 witness: a move was rejected as blocked although one of the shifted
\* footprint cells is a hole.
C9_Witness ==
    /\ last.res = "Blocked"
    /\ \E p \in Shifted(prev, last.id, last.dir) :
          p \in Cells(prev) /\ CellAt(prev, p) = 0

\* C10: a move_block call that returns an error leaves the grid, the hole set,
\* every block position and the legal-move cache as they were before the call.
C10_RejectedUnchanged ==
    Rejected => board = prev

\* C10 witness: each kind of rejection is reached; this one is a blocked move
\* of a block of more than one cell.
C10_Witness ==
    /\ last.res = "Blocked" /\ board = prev
    /\ prev.state.blocks[last.id].size # Vec2(1, 1)

-----------------------------------------------------------------------------
(* Claims about the legal-move cache and the effect of a move, under SpecBoard *)

\* the unit vector of a direction: x grows rightwards, y grows downwards
UnitVec(d) ==
    [Up |-> <<0, -1>>, Down |-> <<0, 1>>, Left |-> <<-1, 0>>, Right |-> <<1, 0>>][d]

\* the moves (b, d) for which some hole c has c - vec(d) inside the grid and
\* occupied by block b
Candidates(b) ==
    {m \in (1..Len(b.state.blocks)) \X Dirs :
        \E c \in b.state.holes :
            LET n == <<c[1] - UnitVec(m[2])[1], c[2] - UnitVec(m[2])[2]>>
            IN n \in Cells(b) /\ CellAt(b, n) = m[1]}

\* C11: immediately after construction and after every move_block call the
\* cached move set returned by possible_moves() equals the set of moves (b, d)
\* such that some hole c has c - vec(d) inside the grid and occupied by b,
\* which is the set a full recomputation from the current holes and grid gives.
C11_CacheFresh ==
    /\ possible_moves(board) = Candidates(board)
    /\ possible_moves(board) = generate_possible_moves(board.state.holes, board.grid)

\* C11 witness: an accepted move has changed the cached move set.
C11_Witness ==
    Accepted /\ possible_moves(board) # possible_moves(prev) /\ possible_moves(board) # {}

\* C12: no move of possible_moves() is rejected by move_block as out of
\* range (nor as not found): a cached candidate is accepted or blocked.
C12_CandidatesInRange ==
    \A m \in possible_moves(board) :
        move_block(board, m[1], m[2]).res \in {"Ok", "Blocked"}

\* C12 witness: after an accepted move the cache holds a candidate that
\* move_block rejects as blocked.
C12_Witness ==
    /\ Accepted
    /\ \E m \in possible_moves(board) : move_block(board, m[1], m[2]).res = "Blocked"

\* C13: every move (id, dir) that move_block would accept, over every id a
\* caller may pass and every direction, is contained in possible_moves(), so
\* every successor state is reached through a candidate.
C13_CandidatesCoverLegal ==
    \A id \in CallIds, d \in Dirs :
        is_valid_move(board, id, d) = "Ok" =>
            /\ <<id, d>> \in possible_moves(board)
            /\ move_block(board, id, d).res = "Ok"

\* C13 witness: after an accepted move, a block of more than one cell can be
\* moved and the cache also holds a candidate that would be rejected.
C13_Witness ==
    /\ Accepted
    /\ \E m \in possible_moves(board) :
          /\ move_block(board, m[1], m[2]).res = "Ok"
          /\ board.state.blocks[m[1]].size # Vec2(1, 1)
    /\ \E m \in possible_moves(board) : move_block(board, m[1], m[2]).res # "Ok"

\* C14: an accepted move_block(id, dir) translates the anchor of block id by
\* the unit vector of dir and leaves its size, every other block, the grid
\* dimensions and the memoized goal unchanged; the grid changes only in the
\* old and new footprints of block id: old-only cells become 0, new cells id.
C14_MoveEffect ==
    Accepted =>
        LET old == prev.state.blocks[last.id]
            new == board.state.blocks[last.id]
        IN /\ new.pos = <<old.pos[1] + UnitVec(last.dir)[1], old.pos[2] + UnitVec(last.dir)[2]>>
           /\ new.size = old.size /\ new.id = old.id
           /\ Len(board.state.blocks) = Len(prev.state.blocks)
           /\ \A i \in DOMAIN prev.state.blocks :
                 i # last.id => board.state.blocks[i] = prev.state.blocks[i]
           /\ board.grid.size = prev.grid.size
           /\ board.final_state = prev.final_state
           /\ \A p \in Cells(prev) :
                 CellAt(board, p) =
                    IF p \in Footprint(new) THEN last.id
                    ELSE IF p \in Footprint(old) THEN 0
                    ELSE CellAt(prev, p)

\* C14 witness: a block of more than one cell has been moved on a board with
\* another block, so that old and new footprints overlap.
C14_Witness ==
    /\ Accepted /\ Len(board.state.blocks) >= 2
    /\ Footprint(prev.state.blocks[last.id]) \cap Footprint(board.state.blocks[last.id]) # {}

-----------------------------------------------------------------------------
(* Claims about the memoized goal and the heuristic, under SpecBoard *)

\* every Board that Board::try_from returns for a grid of the Board specification
ConstructedBoards == ConstructedFrom(BoardSizes)

\* the block sizes by id, with the grid size: what the goal computation reads
Shape(b) == <<b.grid.size, [i \in DOMAIN b.state.blocks |-> b.state.blocks[i].size]>>

\* C15: a Board whose block placement equals the packed layout the goal
\* computation produces for its block sizes reports is_goal() = true, both
\* immediately after construction and after the accepted move that reaches
\* that placement.
C15_GoalRecognised ==
    LET g == generate_final_state(board.grid.size, board.state.blocks)
    IN /\ (g.ok /\ g.state.blocks = board.state.blocks) => is_goal(board)
       /\ board.state.blocks = board.final_state.blocks => is_goal(board)

\* C15 witness: an accepted move has taken a board that was not at its goal
\* to the packed layout, holes included.
C15_Witness ==
    /\ Accepted /\ ~is_goal(prev)
    /\ board.state.blocks = board.final_state.blocks
    /\ board.state.holes # {} /\ Len(board.state.blocks) >= 2

\* blocks of the sizes of a shape, every one of them anchored at the origin
BlocksOfShape(sh) == [i \in DOMAIN sh[2] |-> [id |-> i, pos |-> <<0, 0>>, size |-> sh[2][i]]]

\* C16: the memoized goal depends on the grid size and the block sizes only:
\* it equals the goal recomputed from the current state, move_block never
\* changes it, and it is the goal computed from the shape alone, so that two
\* Boards with the same grid size and the same size for every block id have
\* the same memoized goal whatever their block positions.
C16_GoalIndependent ==
    /\ generate_final_state(board.grid.size, board.state.blocks)
          = [ok |-> TRUE, state |-> board.final_state]
    /\ board.final_state = prev.final_state
    /\ generate_final_state(Shape(board)[1], BlocksOfShape(Shape(board)))
          = [ok |-> TRUE, state |-> board.final_state]

\* C16 witness: an accepted move has produced a second arrangement of the
\* same shape, of at least two blocks, one of them larger than a cell.
C16_Witness ==
    /\ Accepted /\ Len(board.state.blocks) >= 2
    /\ Shape(board) = Shape(prev) /\ board.state.blocks # prev.state.blocks
    /\ \E i \in DOMAIN board.state.blocks : board.state.blocks[i].size # <<1, 1>>

\* the boards one accepted move away from each constructed Board
SuccTable == [b \in ConstructedBoards |-> Successors(b)]

ClosedUnderMoves == \A b \in ConstructedBoards : SuccTable[b] \subseteq ConstructedBoards

\* <<L0, L1, ...>>: Lk holds the constructed Boards whose shortest sequence of
\* accepted moves to a goal state has k moves
RECURSIVE GoalLevelsFrom(_, _)
GoalLevelsFrom(seen, frontier) ==
    IF frontier = {} THEN <<>>
    ELSE LET next == {b \in ConstructedBoards \ seen : SuccTable[b] \cap frontier # {}}
         IN <<frontier>> \o GoalLevelsFrom(seen \cup next, next)

GoalLevels ==
    LET goals == {b \in ConstructedBoards : is_goal(b)}
    IN GoalLevelsFrom(goals, goals)

\* minimum number of accepted moves from b to a goal state; -1 where none is
\* reachable
DistanceToGoal(b) ==
    IF ClosedUnderMoves /\ b \in ConstructedBoards
    THEN IF \E k \in DOMAIN GoalLevels : b \in GoalLevels[k]
         THEN (CHOOSE k \in DOMAIN GoalLevels : b \in GoalLevels[k]) - 1
         ELSE -1
    ELSE ShortestDistance(b)

\* C20: in every reachable state from which a goal state is reachable,
\* heuristic() is at most the minimum number of accepted moves to a goal state.
C20_Admissible ==
    DistanceToGoal(board) >= 0 => heuristic(board) <= DistanceToGoal(board)

\* C20 witness: after an accepted move the goal is reachable, the heuristic is
\* positive and strictly below the true distance.
C20_Witness ==
    /\ Accepted /\ DistanceToGoal(board) > 0
    /\ heuristic(board) > 0 /\ heuristic(board) < DistanceToGoal(board)

-----------------------------------------------------------------------------
(* Specification of Board construction: Board::try_from on a parsed grid *)

\* values a cell of an input grid may hold: a negative id, 0, ids up to MaxBlocks
InputIds == (-1)..MaxBlocks

InputGridsOf(size) ==
    {[size |-> size, store |-> s] : s \in [1..(size[1] * size[2]) -> InputIds]}

\* a grid of 16 columns and 8 rows whose 128 cells hold 128 distinct ids:
\* 1..127 in row-major order, then -1
WideGrid == [size |-> <<16, 8>>, store |-> [i \in 1..128 |-> IF i = 128 THEN -1 ELSE i]]

Inputs(sizes) == UNION {InputGridsOf(sz) : sz \in sizes} \cup {WideGrid}

InitConstruct ==
    /\ input \in Inputs(BoardSizes)
    /\ built = "none"
    /\ board = NoBoard
    /\ orig = NoBoard
    /\ holes0 = 0
    /\ prev = NoBoard
    /\ last = NoCall
    /\ algo = "none"
    /\ pc = "idle"
    /\ stack = <<>>
    /\ visited = {}
    /\ ret = NoRet
    /\ limit = 0
    /\ result = NoResult
    /\ outcome = [a \in Algos |-> Unrun]
    /\ fseen = {}
    /\ mat = NoBoard.grid
    /\ mat0 = NoBoard.grid
    /\ mcall = NoMatrixCall
    /\ text = NoText

TryFrom ==
    /\ built = "none"
    /\ LET r == Board_try_from(input)
       IN IF r.ok
          THEN /\ board' = r.board
               /\ holes0' = Cardinality(r.board.state.holes)
               /\ built' = "Ok"
          ELSE /\ built' = r.err
               /\ UNCHANGED <<board, holes0>>
    /\ UNCHANGED <<text, mat, mat0, mcall, fseen, input, orig, prev, last, algo, pc, stack, visited, ret, limit, result, outcome>>

NextConstruct == TryFrom

SpecConstruct == InitConstruct /\ [][NextConstruct]_vars

-----------------------------------------------------------------------------
(* Claims about construction, under SpecConstruct *)

\* the cells of the input grid that hold value id
CellsOf(g, id) ==
    {p \in (0..(g.size[1] - 1)) \X (0..(g.size[2] - 1)) :
        g.store[p[2] * g.size[1] + p[1] + 1] = id}

LegalSizes == {<<1, 1>>, <<2, 1>>, <<1, 2>>, <<2, 2>>}

\* cells is exactly an axis-aligned rectangle of one of the four legal sizes
IsLegalRectangle(cells) ==
    \E a \in cells, sz \in LegalSizes :
        cells = {<<a[1] + dx, a[2] + dy>> : dx \in 0..(sz[1] - 1), dy \in 0..(sz[2] - 1)}

NonzeroIds(g) == {g.store[i] : i \in DOMAIN g.store} \ {0}

\* C17: in every constructed Board the rectangles of the goal blocks lie
\* inside the grid and are pairwise disjoint, the goal hole set is exactly
\* the set of cells covered by no goal block, and the goal has as many holes
\* as the board's current state.
C17_GoalWellFormed ==
    built = "Ok" =>
        LET fb == board.final_state.blocks
            covered == UNION {Footprint(fb[i]) : i \in DOMAIN fb}
        IN /\ covered \subseteq Cells(board)
           /\ \A i, j \in DOMAIN fb : i # j => Footprint(fb[i]) \cap Footprint(fb[j]) = {}
           /\ board.final_state.holes = Cells(board) \ covered
           /\ Cardinality(board.final_state.holes) = Cardinality(board.state.holes)

\* C18: no Board is returned whose memoized goal holds fewer blocks than the
\* board has: construction fails when the scan ends with a block unplaced.
C18_UnfittableRejected ==
    built = "Ok" => Len(board.final_state.blocks) = Len(board.state.blocks)

\* C19: construction fails when the cells of some nonzero id are not exactly
\* a rectangle of a legal size, and when the nonzero ids are not exactly 1..N
\* for N distinct ids; a constructed Board stores N blocks, block i with id i
\* and a legal size, on the cells that hold i.
C19_StructuralValidation ==
    built # "none" =>
        LET ids == NonzeroIds(input)
            N == Cardinality(ids)
        IN /\ (\E id \in ids : ~IsLegalRectangle(CellsOf(input, id))) => built # "Ok"
           /\ ids # 1..N => built # "Ok"
           /\ built = "Ok" =>
                 /\ Len(board.state.blocks) = N
                 /\ \A i \in 1..N :
                       LET blk == board.state.blocks[i]
                       IN /\ blk.id = i /\ blk.size \in LegalSizes
                          /\ Footprint(blk) = CellsOf(input, i)

-----------------------------------------------------------------------------
(* Specification of the grid: get, get_mut, try_fill, try_fill_without_cover.  *)
(* A behaviour is one call on a grid; the grids a sequence of calls produces  *)
(* are all among the initial grids.                                           *)

\* Largest value a cell of the grid under test holds (0 is the default value).
MaxValue == 1

MatrixSizes == {<<2, 2>>, <<3, 2>>, <<1, 2>>}

\* coordinates a caller may pass: one below and one beyond every grid
Coords == (-1)..3

\* extents of a fill: an empty extent, one cell, two cells
Extents == 0..2

MatricesOf(size) ==
    {[size |-> size, store |-> s] : s \in [1..(size[1] * size[2]) -> 0..MaxValue]}

InitMatrix ==
    /\ mat \in UNION {MatricesOf(sz) : sz \in MatrixSizes}
    /\ mat0 = mat
    /\ mcall = NoMatrixCall
    /\ text = NoText
    /\ board = NoBoard
    /\ orig = NoBoard
    /\ holes0 = 0
    /\ prev = NoBoard
    /\ last = NoCall
    /\ algo = "none"
    /\ pc = "idle"
    /\ stack = <<>>
    /\ visited = {}
    /\ ret = NoRet
    /\ limit = 0
    /\ result = NoResult
    /\ outcome = [a \in Algos |-> Unrun]
    /\ input = NoBoard.grid
    /\ built = "Ok"
    /\ fseen = {}

MatrixFrame ==
    UNCHANGED <<text, board, orig, holes0, prev, last, algo, pc, stack, visited, ret, limit, result,
                outcome, input, built, fseen>>

GetCall ==
    /\ mcall.op = "none"
    /\ \E pos \in Coords \X Coords :
          mcall' = [op |-> "get", pos |-> pos, size |-> <<0, 0>>, value |-> 0,
                    res |-> get(mat, pos)]
    /\ mat' = mat
    /\ mat0' = mat
    /\ MatrixFrame

GetMutCall ==
    /\ mcall.op = "none"
    /\ \E pos \in Coords \X Coords :
          mcall' = [op |-> "get_mut", pos |-> pos, size |-> <<0, 0>>, value |-> 0,
                    res |-> get_mut(mat, pos)]
    /\ mat' = mat
    /\ mat0' = mat
    /\ MatrixFrame

TryFillCall ==
    /\ mcall.op = "none"
    /\ \E anchor \in Coords \X Coords, size \in Extents \X Extents, value \in 0..MaxValue :
          LET r == try_fill(mat, anchor, size, value)
          IN /\ mat' = r.m
             /\ mcall' = [op |-> "try_fill", pos |-> anchor, size |-> size, value |-> value,
                          res |-> IF r.ok THEN "Ok" ELSE "Err"]
    /\ mat0' = mat
    /\ MatrixFrame

TryFillWithoutCoverCall ==
    /\ mcall.op = "none"
    /\ \E anchor \in Coords \X Coords, size \in Extents \X Extents, value \in 0..MaxValue :
          LET r == try_fill_without_cover(mat, anchor, size, value)
          IN /\ mat' = r.m
             /\ mcall' = [op |-> "try_fill_without_cover", pos |-> anchor, size |-> size,
                          value |-> value, res |-> IF r.ok THEN "Ok" ELSE "Err"]
    /\ mat0' = mat
    /\ MatrixFrame

NextMatrix ==
    \/ GetCall
    \/ GetMutCall
    \/ TryFillCall
    \/ TryFillWithoutCoverCall

SpecMatrix == InitMatrix /\ [][NextMatrix]_vars

-----------------------------------------------------------------------------
(* Claims about the grid, under SpecMatrix *)

\* the cells of a grid, as <<x, y>>
GridCells(m) == (0..(m.size[1] - 1)) \X (0..(m.size[2] - 1))

\* the value stored for cell p of m: position y * width + x of the store
Stored(m, p) == m.store[p[2] * m.size[1] + p[1] + 1]

\* the rectangle a fill targets
Target(c) ==
    {<<c.pos[1] + dx, c.pos[2] + dy>> : dx \in 0..(c.size[1] - 1), dy \in 0..(c.size[2] - 1)}

\* C22: get(pos) and get_mut(pos) return the cell stored at row-major index
\* y * width + x when 0 <= x < width and 0 <= y < height, and None for every
\* other pos, negative coordinates included.
C22_BoundsCheckedRead ==
    mcall.op \in {"get", "get_mut"} =>
        /\ mcall.res = IF mcall.pos \in GridCells(mat0)
                       THEN [some |-> TRUE, v |-> Stored(mat0, mcall.pos)]
                       ELSE [some |-> FALSE, v |-> 0]
        /\ mat = mat0

\* C22 witness: get_mut has returned the cell of the second row of a grid
\* whose cells do not all hold the same value.
C22_Witness ==
    /\ mcall.op = "get_mut" /\ mcall.res.some /\ mcall.pos[2] = 1
    /\ \E p, q \in GridCells(mat0) : Stored(mat0, p) # Stored(mat0, q)

\* C23: try_fill returns an error and leaves every cell unchanged if a cell
\* of the anchored rectangle is outside the grid; otherwise it sets exactly
\* the cells of the rectangle to value and leaves every other cell unchanged.
C23_FillAllOrNothing ==
    mcall.op = "try_fill" =>
        /\ mat.size = mat0.size
        /\ IF Target(mcall) \subseteq GridCells(mat0)
           THEN /\ mcall.res = "Ok"
                /\ \A p \in GridCells(mat0) :
                      Stored(mat, p) = IF p \in Target(mcall) THEN mcall.value
                                       ELSE Stored(mat0, p)
           ELSE mcall.res = "Err" /\ mat = mat0

\* C23 witness: a fill was rejected although part of its rectangle, holding
\* another value, lies inside the grid.
C23_Witness ==
    /\ mcall.op = "try_fill" /\ mcall.res = "Err"
    /\ \E p \in Target(mcall) \cap GridCells(mat0) : Stored(mat0, p) # mcall.value

\* C24: try_fill_without_cover returns an error and leaves the grid unchanged
\* if a target cell is outside the grid or holds a non-default value;
\* otherwise it sets exactly the cells of the rectangle to value.
C24_FillOnlyIfEmpty ==
    mcall.op = "try_fill_without_cover" =>
        /\ mat.size = mat0.size
        /\ IF /\ Target(mcall) \subseteq GridCells(mat0)
              /\ \A p \in Target(mcall) : Stored(mat0, p) = 0
           THEN /\ mcall.res = "Ok"
                /\ \A p \in GridCells(mat0) :
                      Stored(mat, p) = IF p \in Target(mcall) THEN mcall.value
                                       ELSE Stored(mat0, p)
           ELSE mcall.res = "Err" /\ mat = mat0

\* C24 witness: a fill that lies inside the grid was rejected because one of
\* its cells is occupied while another is empty.
C24_Witness ==
    /\ mcall.op = "try_fill_without_cover" /\ mcall.res = "Err"
    /\ Target(mcall) \subseteq GridCells(mat0)
    /\ \E p, q \in Target(mcall) : Stored(mat0, p) = 0 /\ Stored(mat0, q) # 0

-----------------------------------------------------------------------------
(* Claims about the searches, continued (under Spec) *)

\* b is the goal or has an accepted move to a board of smaller heuristic value
\* from which the same holds
RECURSIVE HasDescent(_)
HasDescent(b) ==
    \/ is_goal(b)
    \/ \E s \in Successors(b) : heuristic(s) < heuristic(b) /\ HasDescent(s)

\* the one outcome of algorithm a on board b, whatever the candidate order
OutcomeOf(a, b) ==
    IF (IF a = "idastar" THEN HasDescent(b) ELSE Solvable(b))
    THEN [kind |-> "Some", len |-> DistanceToGoal(b)]
    ELSE [kind |-> "None", len |-> 0]

\* C21: whether iddfs and idastar return Some or None, and the length of a
\* returned list, are determined by the board alone: every order in which
\* the candidate moves are tried gives the same outcome and length.
C21_OrderIndependent ==
    Returned => outcome[algo] = OutcomeOf(algo, orig)

\* C21 witness: a search has returned a list of at least two moves on a board
\* that has at least two accepted first moves, one of them away from the goal.
C21_Witness ==
    /\ Returned
    /\ result.kind = "Some"
    /\ Len(result.moves) >= 2
    /\ \E s, t \in Successors(orig) :
          heuristic(s) < heuristic(orig) /\ heuristic(t) > heuristic(orig)
\* the f_limit a node's call was entered with: _idastar frames never write rem,
\* which Frame sets to the limit of the call
CalledWith(fr) == fr.rem

\* a step of the candidate loop of _idastar in which the candidate was accepted
AcceptedCandidate ==
    /\ algo = "idastar" /\ pc = "loop"
    /\ Len(stack') = Len(stack)
    /\ Top'.cur # Top.cur

\* C25: at a node with path cost g and bound f_limit, after an accepted
\* candidate move the compared value is f = (g+1) + heuristic(child), and the
\* child is recursed into, with g+1 and the f_limit the node was called with,
\* exactly when f < f_limit.
C25_FValueRule ==
    [][AcceptedCandidate =>
          LET mv == Top'.cur
              child == move_block(board, mv[1], mv[2]).board
              f == (Top.g + 1) + heuristic(child)
          IN /\ Top'.fv = f
             /\ (pc' = "call") <=> (f < CalledWith(Top))
             /\ (pc' = "call") => (board' = child /\ Top'.lim = CalledWith(Top))]_vars
\* the f-values computed so far in the current round that exceed its f_limit
Exceeding == {f \in fseen : f > limit}

\* C26: a failed round returns the smallest f-value strictly exceeding the
\* round's f_limit that was computed anywhere in the searched tree, recursive
\* calls included, or the unchanged f_limit if no f-value exceeded it.
C26_NextBound ==
    (algo = "idastar" /\ pc = "ret" /\ stack = <<>> /\ ret.kind = "Err") =>
        ret.val = IF Exceeding = {} THEN limit
                  ELSE CHOOSE f \in Exceeding : \A e \in Exceeding : f <= e
\* a round of idastar has returned to the outer loop
RoundReturned == algo = "idastar" /\ pc = "ret" /\ stack = <<>>

\* C27: the first round of idastar uses f_limit = heuristic() of the initial
\* board and g = 0; a later round uses the bound the previous failed round
\* returned, which is strictly greater than that round's f_limit; idastar
\* returns None exactly when a failed round returns a bound that is not
\* greater than the round's f_limit.
C27_OuterLoop ==
    [][/\ (pc \in {"idle", "done"} /\ algo' = "idastar" /\ pc' = "round") =>
             limit' = heuristic(orig)
       /\ (algo = "idastar" /\ pc = "call" /\ stack = <<>> /\ stack' # <<>>) =>
             (stack'[1].g = 0 /\ stack'[1].lim = limit)
       /\ (RoundReturned /\ ret.kind = "Err" /\ ret.val > limit) =>
             (pc' = "round" /\ limit' = ret.val /\ limit' > limit /\ result' = result)
       /\ (RoundReturned /\ ret.kind = "Err" /\ ret.val <= limit) =>
             (pc' = "done" /\ result'.kind = "None")
       /\ (algo' = "idastar" /\ result'.kind = "None" /\ result.kind # "None") =>
             (RoundReturned /\ ret.kind = "Err" /\ ret.val <= limit)
       /\ (algo = "idastar" /\ pc \notin {"idle", "done"}) =>
             (limit' = limit \/ (RoundReturned /\ ret.kind = "Err"))]_vars

\* C27 witness: a second round of idastar is starting with a bound greater
\* than the heuristic value of the initial board.
C27_Witness ==
    algo = "idastar" /\ pc = "round" /\ limit > heuristic(orig)
\* a round of iddfs (either crate) has returned to the outer loop
DfsRoundReturned == algo \in {"iddfs", "iddfs2"} /\ pc = "ret" /\ stack = <<>>

\* the outcome of every finished round: success exactly when the goal is
\* within limit moves of the initial board, with a list of at most limit moves
RoundOutcome ==
    DfsRoundReturned =>
        /\ (ret.kind = "Ok") <=>
              (DistanceToGoal(orig) >= 0 /\ DistanceToGoal(orig) <= limit)
        /\ ret.kind = "Ok" => Len(ret.moves) <= limit
        /\ is_goal(orig) => ret = Ok(<<>>)

\* the rounds: limits 1, 2, 3, ... in order, each on a clone of the initial
\* board with an empty visited set
RoundOrder ==
    /\ (pc \in {"idle", "done"} /\ algo' \in {"iddfs", "iddfs2"} /\ pc' = "round") =>
          limit' = 1
    /\ (algo \in {"iddfs", "iddfs2"} /\ pc = "round") =>
          (board' = orig /\ visited' = {} /\ stack' = <<>> /\ pc' = "call")
    /\ (algo \in {"iddfs", "iddfs2"} /\ pc \notin {"idle", "done"} /\ limit' # limit) =>
          (DfsRoundReturned /\ ret.kind # "Ok" /\ limit' = limit + 1 /\ pc' = "round")

\* C28: iddfs runs bounded rounds with depth limits 1, 2, 3, ... in that
\* order, each on a fresh clone of the initial board with an empty visited
\* set; the round with limit L succeeds iff a goal state is reachable in at
\* most L accepted moves, and then returns at most L moves (none when the
\* initial board is already at goal).
C28_IddfsRounds == []RoundOutcome /\ [][RoundOrder]_vars

\* C28 witness: the round with limit 3 has succeeded with three moves, after
\* the rounds with limits 1 and 2 failed.
C28_Witness ==
    DfsRoundReturned /\ limit = 3 /\ ret.kind = "Ok" /\ Len(ret.moves) = 3
\* the moves the calls on the stack are currently trying, outermost first
PathMoves == [i \in 1..Len(stack) |-> stack[i].cur]

\* the board after the first k of those moves
PrefixBoard(k) == ApplyMoves(orig, SubSeq(PathMoves, 1, k)).board

\* the board at the entry of the call that is being entered or has just returned
EntryBoard == PrefixBoard(Len(stack))

\* the visited set at that entry: the states the calls on the stack inserted
EntryVisited == {PrefixBoard(k).state : k \in 0..(Len(stack) - 1)}

\* C29: whenever a bounded-search call (dfs or _idastar) returns failure, the
\* Board equals the Board at that call's entry and the visited set equals the
\* visited set at that call's entry.  (Entry and failure return of one call
\* have the same stack of callers, so both are compared with the board and
\* the visited set that stack determines.)
C29_BacktrackRestores ==
    (pc = "call" \/ (pc = "ret" /\ ret.kind = "Err")) =>
        (board = EntryBoard /\ visited = EntryVisited)

\* C29 witness: in round 3 of iddfs the call one level below the root, entered
\* with limit 2, has tried its candidates, backtracked and returned Err(0).
C29_Witness ==
    /\ algo = "iddfs2" /\ limit = 3
    /\ pc = "ret" /\ ret = ErrVal(0) /\ Len(stack) = 1

\* C30: in every run of iddfs or idastar on a constructed Board, each undo
\* call move_block(id, inverse(dir)) made after a candidate's recursive
\* attempt did not succeed is accepted: the assertion never aborts the search.
C30_UndoAccepted == pc # "panic"

\* C30 witness: a call two levels below the root has undone a candidate whose
\* recursive attempt failed, and goes on with its loop.
C30_Witness ==
    /\ pc = "loop" /\ Len(stack) = 3
    /\ Top.cur # NoMove /\ ret.kind = "Err"
\* the Puzzle States a list of moves passes through from board b, the state
\* after the last move excluded
StatesBefore(b, moves) ==
    {ApplyMoves(b, SubSeq(moves, 1, k)).board.state : k \in 0..(Len(moves) - 1)}

\* the states of the nodes on the current recursion path that passed the
\* visited check: the entries of the calls on the stack and, while a found
\* solution is handed up, the nodes of the calls that have returned it
PathStates ==
    IF pc = "ret" /\ ret.kind = "Ok"
    THEN EntryVisited \cup StatesBefore(EntryBoard, Reverse(ret.moves))
    ELSE EntryVisited

\* a list of moves from b passes through no Puzzle State twice
NoRepeat(b, moves) ==
    \A i, j \in 0..Len(moves) :
        i < j => ApplyMoves(b, SubSeq(moves, 1, i)).board.state
                    # ApplyMoves(b, SubSeq(moves, 1, j)).board.state

\* C31: at every point of a bounded-search round the visited set holds
\* exactly the Puzzle States of the nodes on the current recursion path that
\* passed the visited check; a node is rejected as visited only when its
\* state occurs earlier on the current path; no returned solution passes
\* through the same Puzzle State twice.
C31_VisitedPathLocal ==
    /\ pc \in {"call", "loop", "ret"} => visited = PathStates
    /\ (pc = "call" /\ board.state \in visited) =>
          \E k \in 0..(Len(stack) - 1) : PrefixBoard(k).state = board.state
    /\ (Returned /\ result.kind = "Some") => NoRepeat(orig, result.moves)

\* C31 witness: a call three levels below the root is entered on a board that
\* is not the goal and whose state is in the visited set, in a round that has
\* depth left.
C31_Witness ==
    /\ algo = "iddfs2" /\ pc = "call" /\ Len(stack) = 3 /\ DfsArg > 0
    /\ ~is_goal(board) /\ board.state \in visited
-----------------------------------------------------------------------------
(* Claims about the heuristic, under SpecBoard *)

\* C32: every accepted move_block changes heuristic() by exactly +1 or -1;
\* no single move decreases it by more than 1.
C32_UnitHeuristicStep ==
    Accepted => Abs(heuristic(board) - heuristic(prev)) = 1

\* C36: in every state reachable from a constructed Board, heuristic() is
\* never negative, and heuristic() = 0 if and only if is_goal() is true.
C36_HeuristicGoal ==
    /\ heuristic(board) >= 0
    /\ (heuristic(board) = 0) <=> is_goal(board)
-----------------------------------------------------------------------------
(* Termination of idastar, under SpecFairIdastar *)

\* C33: for every constructed Board, including boards from which no goal
\* state is reachable, an idastar that is started returns Some or None after
\* finitely many outer rounds and recursive calls.
C33_IdastarTerminates ==
    (algo = "idastar" /\ pc = "round") ~>
        (algo = "idastar" /\ Returned /\ result.kind \in {"Some", "None"})

\* C33 witness: idastar has returned None, after a second round, on a board
\* from which no goal state is reachable.
C33_Witness ==
    /\ algo = "idastar" /\ Returned /\ result.kind = "None"
    /\ limit > heuristic(orig) /\ ~Solvable(orig)
-----------------------------------------------------------------------------
(* Claims about the searches, continued (under Spec) *)

-----------------------------------------------------------------------------
(* Unsolvable detection of the sliding-puzzle-search iddfs, under SpecFair *)

\* a bounded DFS from b with depth limit lim and the states in seen on the
\* path fails with a branch cut off by the depth limit: some path of accepted
\* moves through pairwise distinct states that are not the goal reaches a
\* node, not the goal, with no depth left
RECURSIVE CutOff(_, _, _)
CutOff(b, lim, seen) ==
    /\ ~is_goal(b)
    /\ \/ lim <= 0
       \/ /\ b.state \notin seen
          /\ \E s \in Successors(b) : CutOff(s, lim - 1, seen \cup {b.state})

\* a round of the sliding-puzzle-search iddfs has failed
Round2Failed ==
    algo = "iddfs2" /\ pc = "ret" /\ stack = <<>> /\ ret.kind = "Err"

\* C35: the sliding-puzzle-search iddfs returns None if and only if no goal
\* state is reachable from the initial board, namely in the first round whose
\* bounded DFS fails without any branch having been cut off by the depth
\* limit.  (Rounds are followed up to MaxLimit.)
C35_UnsolvableDetection ==
    /\ []((algo = "iddfs2" /\ Returned) =>
             (result.kind = "None" <=> ~Solvable(orig)))
    /\ [](Round2Failed => (ret.val > 0 <=> ~CutOff(orig, limit, {})))
    /\ []((algo = "iddfs2" /\ Returned /\ result.kind = "None") =>
             /\ ~CutOff(orig, limit, {})
             /\ \A l \in 1..(limit - 1) : CutOff(orig, l, {}))
    /\ (algo = "iddfs2" /\ pc = "round" /\ limit = 1
          /\ ~Solvable(orig) /\ ~CutOff(orig, MaxLimit, {}))
           ~> (algo = "iddfs2" /\ Returned /\ result.kind = "None")

\* C35 witness: the sliding-puzzle-search iddfs has returned None in its
\* third round, on a board that has an accepted move and whose first two
\* rounds were cut off by the depth limit.
C35_Witness ==
    /\ algo = "iddfs2" /\ Returned /\ result.kind = "None" /\ limit = 3
    /\ Successors(orig) # {} /\ CutOff(orig, 2, {})
-----------------------------------------------------------------------------
(* Specification of the text form: Display for Board, FromStr for Matrix2D    *)
(* and Board.  A text is a sequence of lines; a line is the sequence of its   *)
(* whitespace-separated tokens; a token is an integer numeral with the        *)
(* characters written directly before and after it.                           *)

Token(pre, n, post) == [pre |-> pre, n |-> n, post |-> post]

\* "{}" of an integer
Plain(n) == Token("", n, "")

\* "{:?}" of a slice: [a, b, c]
DebugSlice(row) ==
    [i \in 1..Len(row) |->
        Token(IF i = 1 THEN "[" ELSE "", row[i], IF i = Len(row) THEN "]" ELSE ",")]

\* slice.chunks(n) of a store whose length is a multiple of n
chunks(store, n) ==
    [r \in 1..(Len(store) \div n) |-> SubSeq(store, (r - 1) * n + 1, r * n)]

\* Display for Board: "{} {}" of size.x and size.y, then one line per chunk
Display(b) ==
    LET rows == chunks(b.grid.store, b.grid.size[1])
    IN <<<<Plain(b.grid.size[1]), Plain(b.grid.size[2])>>>>
          \o [r \in 1..Len(rows) |-> DebugSlice(rows[r])]

\* str::parse::<i8> of a token
parse_i8(tok) ==
    IF tok.pre = "" /\ tok.post = "" /\ tok.n \in (-128)..127
    THEN [ok |-> TRUE, n |-> tok.n]
    ELSE Err("ParseInt")

parse_size(line) ==
    IF Len(line) # 2 THEN Err("FirstLine")
    ELSE IF \E i \in 1..2 : ~parse_i8(line[i]).ok THEN Err("ParseSize")
    ELSE [ok |-> TRUE, size |-> Vec2(parse_i8(line[2]).n, parse_i8(line[1]).n)]

from_vec(size, vec) ==
    IF size[1] * size[2] # Len(vec) THEN Err("VectorSize")
    ELSE [ok |-> TRUE, m |-> [size |-> size, store |-> vec]]

\* the row loop of from_str from row i on, id_grid holding the rows before it
RECURSIVE ParseRows(_, _, _, _)
ParseRows(rows, i, size, id_grid) ==
    IF i > Len(rows) THEN from_vec(size, id_grid)
    ELSE IF \E k \in 1..Len(rows[i]) : ~parse_i8(rows[i][k]).ok THEN Err("ParseBlockId")
    ELSE IF Len(rows[i]) # size[1] THEN Err("InvalidLine")
    ELSE ParseRows(rows, i + 1, size,
                   id_grid \o [k \in 1..Len(rows[i]) |-> parse_i8(rows[i][k]).n])

\* FromStr for Matrix2D<i8>
Matrix2D_from_str(lines) ==
    IF lines = <<>> THEN Err("MissingFirstLine")
    ELSE LET sz == parse_size(lines[1])
         IN IF ~sz.ok THEN sz
            ELSE IF sz.size[1] <= 0 \/ sz.size[2] <= 0 THEN Err("SizeNotPositive")
            ELSE LET rest == Tail(lines)
                     taken == SubSeq(rest, 1, Min(sz.size[2], Len(rest)))
                 IN ParseRows(taken, 1, sz.size, <<>>)

\* FromStr for Board
Board_from_str(lines) ==
    LET id_grid == Matrix2D_from_str(lines)
    IN IF ~id_grid.ok THEN id_grid ELSE Board_try_from(id_grid.m)

\* a board file of grid g as the input format has it: line 1 is `rows cols`,
\* then rows lines of cols integer ids
BoardFile(g) ==
    <<<<Plain(g.size[2]), Plain(g.size[1])>>>>
       \o [r \in 1..g.size[2] |->
             [i \in 1..g.size[1] |-> Plain(chunks(g.store, g.size[1])[r][i])]]

InitText ==
    /\ orig \in ConstructedFrom(BoardSizes)
    /\ text = NoText
    /\ board = NoBoard
    /\ built = "none"
    /\ holes0 = 0
    /\ prev = NoBoard
    /\ last = NoCall
    /\ algo = "none"
    /\ pc = "idle"
    /\ stack = <<>>
    /\ visited = {}
    /\ ret = NoRet
    /\ limit = 0
    /\ result = NoResult
    /\ outcome = [a \in Algos |-> Unrun]
    /\ input = NoBoard.grid
    /\ fseen = {}
    /\ mat = NoBoard.grid
    /\ mat0 = NoBoard.grid
    /\ mcall = NoMatrixCall

TextFrame ==
    UNCHANGED <<orig, holes0, prev, last, algo, pc, stack, visited, ret, limit, result, outcome,
                input, fseen, mat, mat0, mcall>>

\* writeln!(output, "{}", board)
DisplayCall ==
    /\ text = NoText
    /\ text' = Display(orig)
    /\ UNCHANGED <<board, built>>
    /\ TextFrame

\* the board file a user writes for the same grid
WriteFile ==
    /\ text = NoText
    /\ text' = BoardFile(orig.grid)
    /\ UNCHANGED <<board, built>>
    /\ TextFrame

\* input.parse::<Board>()
FromStrCall ==
    /\ text # NoText /\ built = "none"
    /\ LET r == Board_from_str(text)
       IN IF r.ok
          THEN board' = r.board /\ built' = "Ok"
          ELSE built' = r.err /\ UNCHANGED board
    /\ UNCHANGED text
    /\ TextFrame

NextText == DisplayCall \/ WriteFile \/ FromStrCall

SpecText == InitText /\ [][NextText]_vars

\* C37: the text Display writes for a Board has `rows cols` as its first line
\* followed by rows lines of cols whitespace-separated integer ids, so
\* parsing it back yields a Board with the same grid.
C37_TextRoundTrip ==
    (text # NoText /\ text = Display(orig)) =>
        /\ text = BoardFile(orig.grid)
        /\ built # "none" => (built = "Ok" /\ board.grid = orig.grid)

\* a board file written in the input format parses to a Board with its grid
FileRoundTrip ==
    (text = BoardFile(orig.grid) /\ built # "none") =>
        (built = "Ok" /\ board = orig)

=============================================================================
